---------------------------- MODULE Spec2Model ----------------------------
(***************************************************************************)
(* Model of the fathom deep-research engine (src/src/core/engine.ts) with  *)
(* its providers (search, scraper, LLM client) and the Screener.           *)
(*                                                                         *)
(* Text is a sequence of one-character strings, so that substring tests    *)
(* (Screener) and case folding are computed on the characters.             *)
(***************************************************************************)
EXTENDS Integers, Sequences, FiniteSets, Bags, TLC

(***************************************************************************)
(* Text helpers                                                            *)
(***************************************************************************)

\* String.prototype.toLowerCase on the characters the model's texts use.
Lower(c) ==
    CASE c = "A" -> "a"
      [] c = "B" -> "b"
      [] c = "C" -> "c"
      [] c = "L" -> "l"
      [] c = "O" -> "o"
      [] OTHER -> c

LowerSeq(s) == [i \in 1..Len(s) |-> Lower(s[i])]

\* String.prototype.includes: t occurs in s as a contiguous substring.
Includes(s, t) ==
    \E i \in 0..(Len(s) - Len(t)) :
        \A j \in 1..Len(t) : s[i + j] = t[j]

\* Array.prototype.slice(0, n)
Take(s, n) == SubSeq(s, 1, IF n < Len(s) THEN n ELSE Len(s))

\* Array.prototype.filter
RECURSIVE SelectSeqBy(_, _)
SelectSeqBy(s, keep) ==
    IF s = << >> THEN << >>
    ELSE IF Head(s) \in keep
         THEN << Head(s) >> \o SelectSeqBy(Tail(s), keep)
         ELSE SelectSeqBy(Tail(s), keep)

Range(s) == { s[i] : i \in 1..Len(s) }

(***************************************************************************)
(* URLs.  A search result's href is a URL text; the model keeps the URL in *)
(* its parsed parts and Href serializes it.  Href is injective on Urls.    *)
(***************************************************************************)

SchemeSep == << ":", "/", "/" >>

RECURSIVE JoinParams(_)
JoinParams(ps) ==
    IF ps = << >> THEN << >>
    ELSE ps[1].name \o << "=" >> \o ps[1].value
         \o (IF Len(ps) > 1 THEN << "&" >> \o JoinParams(Tail(ps)) ELSE << >>)

Href(u) ==
    u.scheme \o SchemeSep \o u.host \o u.path
    \o (IF u.query = << >> THEN << >> ELSE << "?" >> \o JoinParams(u.query))
    \o (IF u.frag = << >> THEN << >> ELSE << "#" >> \o u.frag)

Param(n, v) == [name |-> n, value |-> v]

\* h://A.co/a/?utm_s=x&b=2&a=1#f
UrlTracked ==
    [scheme |-> << "h" >>, host |-> << "A", ".", "c", "o" >>,
     path |-> << "/", "a", "/" >>,
     query |-> << Param(<< "u", "t", "m", "_", "s" >>, << "x" >>),
                  Param(<< "b" >>, << "2" >>),
                  Param(<< "a" >>, << "1" >>) >>,
     frag |-> << "f" >>]

\* h://a.co/a?a=1&b=2
UrlPlain ==
    [scheme |-> << "h" >>, host |-> << "a", ".", "c", "o" >>,
     path |-> << "/", "a" >>,
     query |-> << Param(<< "a" >>, << "1" >>), Param(<< "b" >>, << "2" >>) >>,
     frag |-> << >>]

\* h://b.co/login
UrlLogin ==
    [scheme |-> << "h" >>, host |-> << "b", ".", "c", "o" >>,
     path |-> << "/", "l", "o", "g", "i", "n" >>, query |-> << >>, frag |-> << >>]

Urls == { UrlTracked, UrlPlain, UrlLogin }
Hrefs == { Href(u) : u \in Urls }

(***************************************************************************)
(* Screener (src/README.md).  Patterns are literal texts; a RegExp built   *)
(* with the "i" flag from a literal matches case-insensitively anywhere.   *)
(***************************************************************************)

defaultBlacklist ==
    << << "y", "o", "u", "t", "u", "b", "e", ".", "c", "o", "m" >>,
       << "f", "a", "c", "e", "b", "o", "o", "k", ".", "c", "o", "m" >>,
       << "i", "n", "s", "t", "a", "g", "r", "a", "m", ".", "c", "o", "m" >>,
       << "t", "w", "i", "t", "t", "e", "r", ".", "c", "o", "m" >>,
       << "x", ".", "c", "o", "m" >>,
       << "l", "i", "n", "k", "e", "d", "i", "n", ".", "c", "o", "m" >>,
       << "p", "i", "n", "t", "e", "r", "e", "s", "t", ".", "c", "o", "m" >>,
       << "t", "i", "k", "t", "o", "k", ".", "c", "o", "m" >>,
       << "d", "u", "c", "k", "d", "u", "c", "k", "g", "o", ".", "c", "o", "m" >>,
       << "s", "i", "g", "n", "u", "p" >>,
       << "l", "o", "g", "i", "n" >>,
       << "r", "e", "g", "i", "s", "t", "e", "r" >>,
       << "s", "i", "g", "n", "i", "n" >> >>

RegExpTest(pattern, url) == Includes(LowerSeq(url), LowerSeq(pattern))

\* Faulty variant: a match of the allow-list admits the URL at once.
isAllowedAllowWins(url, blacklist, whitelist) ==
    IF Len(whitelist) > 0 /\ (\E i \in 1..Len(whitelist) : RegExpTest(whitelist[i], url))
    THEN TRUE
    ELSE IF Len(whitelist) > 0
    THEN FALSE
    ELSE IF \E i \in 1..Len(defaultBlacklist) : Includes(url, defaultBlacklist[i])
    THEN FALSE
    ELSE IF Len(blacklist) > 0 /\ (\E i \in 1..Len(blacklist) : RegExpTest(blacklist[i], url))
    THEN FALSE
    ELSE TRUE

isAllowed(url, blacklist, whitelist) ==
    IF Len(whitelist) > 0 /\ ~(\E i \in 1..Len(whitelist) : RegExpTest(whitelist[i], url))
    THEN FALSE
    ELSE IF \E i \in 1..Len(defaultBlacklist) : Includes(url, defaultBlacklist[i])
    THEN FALSE
    ELSE IF Len(blacklist) > 0 /\ (\E i \in 1..Len(blacklist) : RegExpTest(blacklist[i], url))
    THEN FALSE
    ELSE TRUE

\* The engine constructs its Screener with no patterns: new Screener().
screenerBlacklist == << >>
screenerWhitelist == << >>

(***************************************************************************)
(* UrlCanonicalizer, as the specification describes it (section 4.1): the  *)
(* engine under src/ has no canonicalizer and compares hrefs as they are.  *)
(***************************************************************************)

Alphabet == << "_", "a", "b", "c", "d", "f", "g", "i", "l", "m", "s", "t", "u" >>
Ord(c) == IF \E i \in 1..Len(Alphabet) : Alphabet[i] = c
          THEN CHOOSE i \in 1..Len(Alphabet) : Alphabet[i] = c
          ELSE 0

\* s sorts strictly before t (lexicographic on the characters).
RECURSIVE TextLess(_, _)
TextLess(s, t) ==
    IF t = << >> THEN FALSE
    ELSE IF s = << >> THEN TRUE
    ELSE IF Ord(Head(s)) # Ord(Head(t)) THEN Ord(Head(s)) < Ord(Head(t))
    ELSE TextLess(Tail(s), Tail(t))

TrackingParams ==
    { << "f", "b", "c", "l", "i", "d" >>, << "g", "c", "l", "i", "d" >>,
      << "m", "c", "_", "c", "i", "d" >>, << "m", "c", "_", "e", "i", "d" >> }

IsTracking(name) ==
    \/ (Len(name) >= 4 /\ LowerSeq(SubSeq(name, 1, 4)) = << "u", "t", "m", "_" >>)
    \/ LowerSeq(name) \in TrackingParams

RECURSIVE DropTracking(_)
DropTracking(ps) ==
    IF ps = << >> THEN << >>
    ELSE IF IsTracking(ps[1].name) THEN DropTracking(Tail(ps))
    ELSE << ps[1] >> \o DropTracking(Tail(ps))

\* Stable insertion sort by parameter name.
RECURSIVE InsertParam(_, _)
InsertParam(p, sorted) ==
    IF sorted = << >> THEN << p >>
    ELSE IF TextLess(p.name, sorted[1].name) THEN << p >> \o sorted
    ELSE << sorted[1] >> \o InsertParam(p, Tail(sorted))

RECURSIVE SortParams(_)
SortParams(ps) ==
    IF ps = << >> THEN << >>
    ELSE InsertParam(ps[Len(ps)], SortParams(SubSeq(ps, 1, Len(ps) - 1)))

StripSlash(path) ==
    IF Len(path) > 1 /\ path[Len(path)] = "/"
    THEN SubSeq(path, 1, Len(path) - 1)
    ELSE path

\* The URLs canonicalize is followed on: two spellings of the host, paths
\* with no, one and two trailing slashes, parameter lists with and without a
\* tracking parameter, sorted and unsorted, with and without a fragment.
UrlSpace ==
    Urls \cup
    [scheme : { << "h" >> },
     host : { << "A", ".", "c", "o" >>, << "a", ".", "c", "o" >> },
     path : { << "/" >>, << "/", "a" >>, << "/", "a", "/" >>, << "/", "a", "/", "/" >> },
     query : { << >>,
               << Param(<< "u", "t", "m", "_", "s" >>, << "x" >>) >>,
               << Param(<< "b" >>, << "2" >>), Param(<< "a" >>, << "1" >>) >>,
               << Param(<< "a" >>, << "1" >>), Param(<< "b" >>, << "2" >>) >>,
               << Param(<< "u", "t", "m", "_", "s" >>, << "x" >>),
                  Param(<< "b" >>, << "2" >>), Param(<< "a" >>, << "1" >>) >> },
     frag : { << >>, << "f" >> }]

\* The parsed URL of a text, for the texts the model's URLs serialize to.
Parseable(raw) == \E u \in UrlSpace : Href(u) = raw
parseUrl(raw) == CHOOSE u \in UrlSpace : Href(u) = raw

canonicalize(raw) ==
    IF ~Parseable(raw) THEN raw
    ELSE LET u == parseUrl(raw)
         IN Href([scheme |-> u.scheme,
                  host |-> LowerSeq(u.host),
                  path |-> StripSlash(u.path),
                  query |-> SortParams(DropTracking(u.query)),
                  frag |-> << >>])

(***************************************************************************)
(* Bounds of the model and program constants                               *)
(***************************************************************************)

MaxDepth == 2          \* config.depth ranges over 0..MaxDepth
MaxBreadth == 2        \* config.breadth ranges over 1..MaxBreadth
MaxConcurrency == 2    \* config.concurrency ranges over 1..MaxConcurrency
MaxResults == 2        \* config.maxSearchResultsPerQuery ranges over 1..MaxResults
MaxLearnings == 1      \* config.learningsPerChunk ranges over 1..MaxLearnings
MaxFollowUps == 1      \* an extraction returns at most MaxFollowUps follow-ups
MaxPatterns == 2       \* a Screener is constructed with at most MaxPatterns patterns per list
MaxTextLen == 5        \* a short model answer has at most MaxTextLen characters
MaxTokens == 1         \* a response reports at most MaxTokens prompt or completion tokens
MaxCalls == 3          \* the accumulator is followed over at most MaxCalls generation calls
MaxGen == MaxBreadth + 1   \* a generation may return more queries than asked for
MaxExtracted == MaxLearnings + 1   \* an extraction may return more learnings than asked for

SearchLimit == 5       \* SearchService.search(query, limit = 5)
MinContentLength == 100
FollowUpLimit == 3      \* "up to 3 follow - up research questions"

Topic == << "t", 0 >>
QueryText(i) == << "q", i >>
LearningText(i) == << "l", i >>
FollowUpText(i) == << "f", i >>

(***************************************************************************)
(* State                                                                   *)
(***************************************************************************)

VARIABLES
    config,     \* ResearchConfig, immutable after construction
    state,      \* ResearchState: learnings, visitedUrls, tokenUsage
    log,        \* the LogEvents emitted so far, as a bag (event -> times emitted)
    nodes,      \* the calls of _researchRecursive made so far, by number
    queue,      \* p-limit: tasks waiting for a slot, first in first out
    active,     \* p-limit: tasks holding a slot
    runStatus,  \* the promise of run(): idle, running, returned, rejected
    report,     \* the promise of generateReport(): none, inflight, returned, failed
    call        \* a call of a pure function made on its own: arguments and result

vars == << config, state, log, nodes, queue, active, runStatus, report, call >>

\* No pure function is being called on its own.
NoCall == [op |-> "none"]

Configs ==
    [depth : 0..MaxDepth, breadth : 1..MaxBreadth,
     concurrency : 1..MaxConcurrency, learningsPerChunk : 1..MaxLearnings,
     maxSearchResultsPerQuery : 1..MaxResults]

\* The constructor: empty state, limit = pLimit(config.concurrency).
Init ==
    /\ config \in Configs
    /\ state = [learnings |-> << >>, visitedUrls |-> {},
                tokenUsage |-> [prompt |-> 0, completion |-> 0, total |-> 0]]
    /\ log = EmptyBag
    /\ nodes = << >>
    /\ queue = << >>
    /\ active = {}
    /\ runStatus = "idle"
    /\ report = "none"
    /\ call = NoCall

(***************************************************************************)
(* p-limit: limit(fn) queues fn; a queued task starts as soon as fewer     *)
(* than `concurrency` tasks hold a slot; a settling task frees its slot    *)
(* and starts the next queued one.                                         *)
(***************************************************************************)

SearchRef(n, i) == [kind |-> "search", node |-> n, idx |-> i]
FetchRef(n, i) == [kind |-> "fetch", node |-> n, idx |-> i]
RecurseRef(n) == [kind |-> "recurse", node |-> n, idx |-> 0]

\* Faulty variant: the capacity test admits one task too many.
HasFreeSlotOffByOne(a) == Cardinality(a) <= config.concurrency

HasFreeSlot(a) == Cardinality(a) < config.concurrency

RECURSIVE Pump(_, _)
Pump(q, a) ==
    IF q # << >> /\ HasFreeSlot(a)
    THEN Pump(Tail(q), a \cup { Head(q) })
    ELSE [queue |-> q, active |-> a]

Enqueue(q, a, refs) == Pump(q \o refs, a)
Release(q, a, ref) == Pump(q, a \ { ref })

(***************************************************************************)
(* Providers: what a call yields once the outside world has answered.      *)
(***************************************************************************)

NoUsage == [reported |-> FALSE, prompt_tokens |-> 0, completion_tokens |-> 0, total_tokens |-> 0]
UsageReports == { [reported |-> TRUE, prompt_tokens |-> 2, completion_tokens |-> 1, total_tokens |-> 3] }

\* The answers of the outside world.
GenAnswers ==
    { [ok |-> FALSE, count |-> 0, usage |-> NoUsage] }
    \cup [ok : { TRUE }, count : 0..MaxGen, usage : UsageReports]

\* The result pages of the search backend, as lists of hrefs: an empty page,
\* a page listing one href twice, a page listing two spellings of one place,
\* and a page with a screened href first.
HitLists ==
    { << >>,
      << Href(UrlTracked), Href(UrlTracked) >>,
      << Href(UrlTracked), Href(UrlPlain) >>,
      << Href(UrlLogin), Href(UrlPlain) >> }
SearchAnswers ==
    { [ok |-> FALSE, hits |-> << >>] } \cup [ok : { TRUE }, hits : HitLists]

FetchAnswers ==
    { [ok |-> FALSE, length |-> 0] }
    \cup [ok : { TRUE }, length : { MinContentLength - 1, MinContentLength }]

ExtractAnswers ==
    { [ok |-> FALSE, learnings |-> 0, followUps |-> 0, usage |-> NoUsage] }
    \cup [ok : { TRUE }, learnings : 0..MaxExtracted, followUps : 0..MaxFollowUps,
          usage : UsageReports]

TextAnswers ==
    { [ok |-> FALSE, usage |-> NoUsage] } \cup [ok : { TRUE }, usage : UsageReports]

\* SearchService.search: at most `limit` results; any failure yields [].
search(answer) ==
    IF answer.ok THEN Take(answer.hits, SearchLimit) ELSE << >>

\* ScraperService.fetchAndConvert: the text's length; any failure yields "".
fetchAndConvert(answer) ==
    IF answer.ok THEN answer.length ELSE 0

updateUsage(tokenUsage, usage) ==
    IF ~usage.reported THEN tokenUsage
    ELSE [prompt |-> tokenUsage.prompt + usage.prompt_tokens,
          completion |-> tokenUsage.completion + usage.completion_tokens,
          total |-> tokenUsage.total + usage.total_tokens]

ErrorEvent(msg) == [type |-> "error", message |-> msg]

\* this.log(event) for each event of the sequence, in order.
RECURSIVE Emit(_, _)
Emit(bag, events) ==
    IF events = << >> THEN bag
    ELSE Emit(bag (+) SetToBag({ Head(events) }), Tail(events))

\* Faulty variant: the queries of the answer are not cut to numQueries.
generateQueriesUnsliced(prompt, numQueries, answer) ==
    IF answer.ok
    THEN [threw |-> FALSE,
          queries |-> [i \in 1..answer.count |-> QueryText(i)],
          usage |-> answer.usage, events |-> << >>]
    ELSE [threw |-> FALSE, queries |-> << prompt >>, usage |-> NoUsage,
          events |-> << ErrorEvent("Failed to generate queries") >>]

\* Faulty variant: a failed generation falls back to no query at all.
generateQueriesNoFallback(prompt, numQueries, answer) ==
    IF answer.ok
    THEN [threw |-> FALSE,
          queries |-> Take([i \in 1..answer.count |-> QueryText(i)], numQueries),
          usage |-> answer.usage, events |-> << >>]
    ELSE [threw |-> FALSE, queries |-> << >>, usage |-> NoUsage,
          events |-> << ErrorEvent("Failed to generate queries") >>]

\* generateQueries: the queries, the usage to add, the events logged, and
\* whether the call throws to its caller.
generateQueries(prompt, numQueries, answer) ==
    IF answer.ok
    THEN [threw |-> FALSE,
          queries |-> Take([i \in 1..answer.count |-> QueryText(i)], numQueries),
          usage |-> answer.usage, events |-> << >>]
    ELSE [threw |-> FALSE, queries |-> << prompt >>, usage |-> NoUsage,
          events |-> << ErrorEvent("Failed to generate queries") >>]

\* Faulty variant: processContent without its catch block.
processContentNoCatch(answer) ==
    IF answer.ok
    THEN [threw |-> FALSE,
          learnings |-> [i \in 1..answer.learnings |-> LearningText(i)],
          followUpQuestions |-> [i \in 1..answer.followUps |-> FollowUpText(i)],
          usage |-> answer.usage, events |-> << >>]
    ELSE [threw |-> TRUE, learnings |-> << >>, followUpQuestions |-> << >>,
          usage |-> NoUsage, events |-> << >>]

\* processContent: the extraction, the usage to add, the events logged, and
\* whether the call throws to its caller.
processContent(answer) ==
    IF answer.ok
    THEN [threw |-> FALSE,
          learnings |-> [i \in 1..answer.learnings |-> LearningText(i)],
          followUpQuestions |-> [i \in 1..answer.followUps |-> FollowUpText(i)],
          usage |-> answer.usage, events |-> << >>]
    ELSE [threw |-> FALSE, learnings |-> << >>, followUpQuestions |-> << >>,
          usage |-> NoUsage,
          events |-> << ErrorEvent("Failed to process content") >>]

(***************************************************************************)
(* The recursion tree.  nodes[n] is the n-th call of _researchRecursive    *)
(* that got past the depth test; parent = 0 marks the call made by run.    *)
(***************************************************************************)

NewNode(prompt, depth, parent) ==
    [prompt |-> prompt, depth |-> depth, parent |-> parent,
     phase |-> "generating", queries |-> << >>,
     search |-> << >>, fetch |-> << >>, children |-> << >>]

NodeIds == 1..Len(nodes)

\* Faulty variant: the depth test lets depth 0 through.
terminalBelowZero(currentDepth) == currentDepth < 0

\* if (currentDepth <= 0) return;
terminal(currentDepth) == currentDepth <= 0

\* The promise of a node settles: run's promise for the root, the slot of
\* the wrapping limit task for a sub-branch.  When run returns, every call
\* of the tree has returned and its frames are gone.
FinishNode(ns, q, a, rs, n, outcome) ==
    LET ns2 == [ns EXCEPT ![n].phase = outcome]
        rel == Release(q, a, RecurseRef(n))
    IN IF ns[n].parent = 0
       THEN [nodes |-> IF outcome = "done" THEN << >> ELSE ns2,
             queue |-> q, active |-> a,
             runStatus |-> IF outcome = "done" THEN "returned" ELSE "rejected"]
       ELSE [nodes |-> ns2, queue |-> rel.queue, active |-> rel.active,
             runStatus |-> rs]

\* Faulty variant: the node goes on as soon as its first search has settled.
SearchJoinReadyFirstDone(n) ==
    /\ nodes[n].phase = "searching"
    /\ Len(nodes[n].search) > 0
    /\ nodes[n].search[1].status = "done"

\* Promise.all settles: one input rejected, or all fulfilled.  A search
\* task never rejects: search() catches every error.
SearchJoinReady(n) ==
    /\ nodes[n].phase = "searching"
    /\ \A i \in 1..Len(nodes[n].search) : nodes[n].search[i].status = "done"

FetchJoinReady(n) ==
    /\ nodes[n].phase = "fetching"
    /\ \/ \E i \in 1..Len(nodes[n].fetch) : nodes[n].fetch[i].stage = "rejected"
       \/ \A i \in 1..Len(nodes[n].fetch) : nodes[n].fetch[i].stage = "done"

RecurseJoinReady(n) ==
    /\ nodes[n].phase = "recursing"
    /\ \/ \E i \in 1..Len(nodes[n].children) : nodes[nodes[n].children[i]].phase = "rejected"
       \/ \A i \in 1..Len(nodes[n].children) : nodes[nodes[n].children[i]].phase = "done"

\* A continuation is ready to run: continuations (microtasks) run before the
\* next answer of the outside world is delivered.
ContinuationPending ==
    \E n \in NodeIds : SearchJoinReady(n) \/ FetchJoinReady(n) \/ RecurseJoinReady(n)

\* The node is awaiting generateQueries: the root runs outside the limit, a
\* sub-branch runs once its limit task holds a slot.
Generating(n) ==
    /\ nodes[n].phase = "generating"
    /\ nodes[n].parent = 0 \/ RecurseRef(n) \in active

(***************************************************************************)
(* _researchRecursive, step by step.  An action is the delivery of one     *)
(* provider answer together with the synchronous code that follows it, or  *)
(* one continuation after a Promise.all.                                   *)
(***************************************************************************)

\* Faulty variant: the results are cut to the maximum before they are filtered.
newResultsOfSliceFirst(results, visited) ==
    LET cut == Take(results, config.maxSearchResultsPerQuery)
    IN SelectSeqBy(cut, { h \in Range(cut) :
                            h \notin visited
                            /\ isAllowed(h, screenerBlacklist, screenerWhitelist) })

\* Faulty variant: the results are not screened.
newResultsOfUnscreened(results, visited) ==
    Take(SelectSeqBy(results, { h \in Range(results) : h \notin visited }),
         config.maxSearchResultsPerQuery)

\* results.filter(r => !visitedUrls.has(r.href) && screener.isAllowed(r.href))
\*        .slice(0, maxSearchResultsPerQuery)
newResultsOf(results, visited) ==
    Take(SelectSeqBy(results,
                     { h \in Range(results) :
                         h \notin visited
                         /\ isAllowed(h, screenerBlacklist, screenerWhitelist) }),
         config.maxSearchResultsPerQuery)

\* Faulty variant: the admitted results are not recorded at search time.
markVisitedSkipped(visited, newResults) == visited

\* Faulty variant: only the first admitted result is recorded.
markVisitedFirstOnly(visited, newResults) ==
    visited \cup (IF newResults = << >> THEN {} ELSE { newResults[1] })

\* for (const r of newResults) visitedUrls.add(r.href)
markVisited(visited, newResults) == visited \cup Range(newResults)

\* !content || content.length < 100
tooShort(length) == length = 0 \/ length < MinContentLength

NullResult ==
    [null |-> TRUE, learnings |-> << >>, followUpQuestions |-> << >>,
     sourceUrl |-> << >>, sourceQuery |-> << >>]

\* searchResults.flatMap(({query, results}) => results.map(...))
RECURSIVE FlattenResults(_)
FlattenResults(tasks) ==
    IF tasks = << >> THEN << >>
    ELSE [i \in 1..Len(tasks[1].results) |->
             [url |-> tasks[1].results[i], query |-> tasks[1].query,
              stage |-> "fetch", res |-> NullResult]]
         \o FlattenResults(Tail(tasks))

\* Faulty variant: every learning is attributed to the source of the first
\* result of the batch.
RECURSIVE CollectLearningsFrom(_, _)
CollectLearningsFrom(tasks, first) ==
    IF tasks = << >> THEN << >>
    ELSE (IF tasks[1].res.null THEN << >>
          ELSE [i \in 1..Len(tasks[1].res.learnings) |->
                   [text |-> tasks[1].res.learnings[i],
                    sourceUrl |-> first.url,
                    sourceQuery |-> first.query]])
         \o CollectLearningsFrom(Tail(tasks), first)
CollectLearningsOneSource(tasks) ==
    IF tasks = << >> THEN << >> ELSE CollectLearningsFrom(tasks, tasks[1])

\* Faulty variant: collecting stops at the first result without learnings.
RECURSIVE CollectLearningsStopAtEmpty(_)
CollectLearningsStopAtEmpty(tasks) ==
    IF tasks = << >> THEN << >>
    ELSE IF tasks[1].res.null \/ tasks[1].res.learnings = << >> THEN << >>
    ELSE [i \in 1..Len(tasks[1].res.learnings) |->
             [text |-> tasks[1].res.learnings[i],
              sourceUrl |-> tasks[1].res.sourceUrl,
              sourceQuery |-> tasks[1].res.sourceQuery]]
         \o CollectLearningsStopAtEmpty(Tail(tasks))

\* The learnings pushed for the processed results, in task order.
RECURSIVE CollectLearnings(_)
CollectLearnings(tasks) ==
    IF tasks = << >> THEN << >>
    ELSE (IF tasks[1].res.null THEN << >>
          ELSE [i \in 1..Len(tasks[1].res.learnings) |->
                   [text |-> tasks[1].res.learnings[i],
                    sourceUrl |-> tasks[1].res.sourceUrl,
                    sourceQuery |-> tasks[1].res.sourceQuery]])
         \o CollectLearnings(Tail(tasks))

RECURSIVE CollectFollowUps(_)
CollectFollowUps(tasks) ==
    IF tasks = << >> THEN << >>
    ELSE (IF tasks[1].res.null THEN << >> ELSE tasks[1].res.followUpQuestions)
         \o CollectFollowUps(Tail(tasks))

\* Faulty variant: a node at depth 1 recurses too.
recursesAtDepthOne(currentDepth, newFollowUps) ==
    currentDepth >= 1 /\ Len(newFollowUps) > 0

\* currentDepth > 1 && newFollowUps.length > 0
recurses(currentDepth, newFollowUps) == currentDepth > 1 /\ Len(newFollowUps) > 0

\* run(prompt): await _researchRecursive(prompt, config.depth)
Run ==
    /\ runStatus = "idle"
    /\ IF terminal(config.depth)
       THEN /\ runStatus' = "returned"
            /\ nodes' = nodes
       ELSE /\ runStatus' = "running"
            /\ nodes' = << NewNode(Topic, config.depth, 0) >>
    /\ UNCHANGED << call, config, state, log, queue, active, report >>

\* generateQueries settles; the node logs query_generated and hands one
\* search task per query to the limit.
GenSettle(n, answer) ==
    /\ Generating(n)
    /\ ~ContinuationPending
    /\ LET r == generateQueries(nodes[n].prompt, config.breadth, answer)
           fin == FinishNode(nodes, queue, active, runStatus, n, "rejected")
           tasks == [i \in 1..Len(r.queries) |->
                        [query |-> r.queries[i], status |-> "pending",
                         found |-> << >>, results |-> << >>]]
           lim == Enqueue(queue, active, [i \in 1..Len(r.queries) |-> SearchRef(n, i)])
       IN IF r.threw
          THEN /\ nodes' = fin.nodes
               /\ queue' = fin.queue
               /\ active' = fin.active
               /\ runStatus' = fin.runStatus
               /\ log' = Emit(log, r.events)
               /\ state' = state
          ELSE /\ state' = [state EXCEPT !.tokenUsage = updateUsage(@, r.usage)]
               /\ log' = Emit(log, r.events
                         \o << [type |-> "query_generated", depth |-> nodes[n].depth,
                                count |-> Len(r.queries), queries |-> r.queries] >>)
               /\ nodes' = [nodes EXCEPT ![n].queries = r.queries,
                                         ![n].search = tasks,
                                         ![n].phase = "searching"]
               /\ queue' = lim.queue
               /\ active' = lim.active
               /\ runStatus' = runStatus
    /\ UNCHANGED << call, config, report >>

\* A search call settles inside its limit task: log, screen, deduplicate,
\* truncate, mark visited, return; the slot is freed.
SearchSettle(ref, answer) ==
    /\ ref \in active
    /\ ref.kind = "search"
    /\ ~ContinuationPending
    /\ LET n == ref.node
           i == ref.idx
           results == search(answer)
           newResults == newResultsOf(results, state.visitedUrls)
           lim == Release(queue, active, ref)
       IN /\ log' = Emit(log, << [type |-> "search", query |-> nodes[n].search[i].query,
                                     results_count |-> Len(results)] >>)
          /\ state' = [state EXCEPT !.visitedUrls = markVisited(@, newResults)]
          /\ nodes' = [nodes EXCEPT ![n].search[i].status = "done",
                                    ![n].search[i].found = results,
                                    ![n].search[i].results = newResults]
          /\ queue' = lim.queue
          /\ active' = lim.active
    /\ UNCHANGED << call, config, runStatus, report >>

\* await Promise.all(searchPromises) continues: one fetch task per result.
SearchJoin(n) ==
    /\ n \in NodeIds
    /\ SearchJoinReady(n)
    /\ LET tasks == FlattenResults(nodes[n].search)
           lim == Enqueue(queue, active, [i \in 1..Len(tasks) |-> FetchRef(n, i)])
       IN /\ nodes' = [nodes EXCEPT ![n].fetch = tasks, ![n].phase = "fetching"]
          /\ queue' = lim.queue
          /\ active' = lim.active
    /\ UNCHANGED << call, config, state, log, runStatus, report >>

\* fetchAndConvert settles inside its limit task: a missing or short text
\* ends the task with null, otherwise processContent is called.
FetchSettle(ref, answer) ==
    /\ ref \in active
    /\ ref.kind = "fetch"
    /\ nodes[ref.node].fetch[ref.idx].stage = "fetch"
    /\ ~ContinuationPending
    /\ LET n == ref.node
           i == ref.idx
           url == nodes[n].fetch[i].url
           lim == Release(queue, active, ref)
       IN IF tooShort(fetchAndConvert(answer))
          THEN /\ log' = Emit(log, << [type |-> "scrape", url |-> url, status |-> "failed"] >>)
               /\ nodes' = [nodes EXCEPT ![n].fetch[i].stage = "done"]
               /\ queue' = lim.queue
               /\ active' = lim.active
          ELSE /\ log' = Emit(log, << [type |-> "scrape", url |-> url, status |-> "success"] >>)
               /\ nodes' = [nodes EXCEPT ![n].fetch[i].stage = "extract"]
               /\ UNCHANGED << queue, active >>
    /\ UNCHANGED << call, config, state, runStatus, report >>

\* processContent settles inside its limit task; the task returns the
\* extraction with its source url and query and frees the slot.
ExtractSettle(ref, answer) ==
    /\ ref \in active
    /\ ref.kind = "fetch"
    /\ nodes[ref.node].fetch[ref.idx].stage = "extract"
    /\ ~ContinuationPending
    /\ LET n == ref.node
           i == ref.idx
           task == nodes[n].fetch[i]
           r == processContent(answer)
           lim == Release(queue, active, ref)
       IN /\ IF r.threw
             THEN /\ nodes' = [nodes EXCEPT ![n].fetch[i].stage = "rejected"]
                  /\ log' = Emit(log, r.events)
                  /\ state' = state
             ELSE /\ state' = [state EXCEPT !.tokenUsage = updateUsage(@, r.usage)]
                  /\ log' = Emit(log, r.events
                            \o (IF Len(r.learnings) > 0
                                THEN << [type |-> "learnings", url |-> task.url,
                                         count |-> Len(r.learnings),
                                         learnings |-> r.learnings] >>
                                ELSE << >>))
                  /\ nodes' = [nodes EXCEPT
                                 ![n].fetch[i].stage = "done",
                                 ![n].fetch[i].res =
                                     [null |-> FALSE, learnings |-> r.learnings,
                                      followUpQuestions |-> r.followUpQuestions,
                                      sourceUrl |-> task.url,
                                      sourceQuery |-> task.query]]
          /\ queue' = lim.queue
          /\ active' = lim.active
    /\ UNCHANGED << call, config, runStatus, report >>

\* await Promise.all(contentPromises) continues: learnings are pushed,
\* follow-ups collected, and either sub-branches are handed to the limit or
\* the call returns.
FetchJoin(n) ==
    /\ n \in NodeIds
    /\ FetchJoinReady(n)
    /\ LET node == nodes[n]
           rejected == \E i \in 1..Len(node.fetch) : node.fetch[i].stage = "rejected"
           newFollowUps == CollectFollowUps(node.fetch)
           nextPrompts == Take(newFollowUps, config.breadth)
           kids == [i \in 1..Len(nextPrompts) |-> Len(nodes) + i]
           grown == [nodes EXCEPT ![n].phase = "recursing", ![n].children = kids]
                    \o [i \in 1..Len(nextPrompts) |->
                           NewNode(nextPrompts[i], node.depth - 1, n)]
           lim == Enqueue(queue, active, [i \in 1..Len(kids) |-> RecurseRef(kids[i])])
           fin == FinishNode(nodes, queue, active, runStatus, n,
                             IF rejected THEN "rejected" ELSE "done")
       IN IF ~rejected /\ recurses(node.depth, newFollowUps)
          THEN /\ state' = [state EXCEPT !.learnings = @ \o CollectLearnings(node.fetch)]
               /\ nodes' = grown
               /\ queue' = lim.queue
               /\ active' = lim.active
               /\ runStatus' = runStatus
          ELSE /\ state' = IF rejected THEN state
                           ELSE [state EXCEPT !.learnings = @ \o CollectLearnings(node.fetch)]
               /\ nodes' = fin.nodes
               /\ queue' = fin.queue
               /\ active' = fin.active
               /\ runStatus' = fin.runStatus
    /\ UNCHANGED << call, config, log, report >>

\* await Promise.all(sub-branches) continues: the call returns.
RecurseJoin(n) ==
    /\ n \in NodeIds
    /\ RecurseJoinReady(n)
    /\ LET rejected == \E i \in 1..Len(nodes[n].children) :
                          nodes[nodes[n].children[i]].phase = "rejected"
           fin == FinishNode(nodes, queue, active, runStatus, n,
                             IF rejected THEN "rejected" ELSE "done")
       IN /\ nodes' = fin.nodes
          /\ queue' = fin.queue
          /\ active' = fin.active
          /\ runStatus' = fin.runStatus
    /\ UNCHANGED << call, config, state, log, report >>

\* generateReport(prompt): logs report_generation and calls generateText.
GenerateReport ==
    /\ runStatus = "returned"
    /\ report = "none"
    /\ log' = Emit(log, << [type |-> "report_generation", prompt |-> Topic] >>)
    /\ report' = "inflight"
    /\ UNCHANGED << call, config, state, nodes, queue, active, runStatus >>

\* Faulty variant: a failure of the provider yields an empty content.
generateTextSwallowed(answer) ==
    [threw |-> FALSE, usage |-> IF answer.ok THEN answer.usage ELSE NoUsage]

\* LLMClient.generateText: the content with its usage, or the provider's
\* error, thrown again from the catch block.
generateText(answer) ==
    [threw |-> ~answer.ok, usage |-> IF answer.ok THEN answer.usage ELSE NoUsage]

\* generateText settles: the usage is added and the report returned, or the
\* provider's error is thrown to the caller.
ReportSettle(answer) ==
    /\ report = "inflight"
    /\ LET r == generateText(answer)
       IN IF r.threw
          THEN /\ state' = state
               /\ report' = "failed"
          ELSE /\ state' = [state EXCEPT !.tokenUsage = updateUsage(@, r.usage)]
               /\ report' = "returned"
    /\ UNCHANGED << call, config, log, nodes, queue, active, runStatus >>

Next ==
    \/ Run
    \/ \E n \in NodeIds, answer \in GenAnswers : GenSettle(n, answer)
    \/ \E ref \in active, answer \in SearchAnswers : SearchSettle(ref, answer)
    \/ \E n \in NodeIds : SearchJoin(n)
    \/ \E ref \in active, answer \in FetchAnswers : FetchSettle(ref, answer)
    \/ \E ref \in active, answer \in ExtractAnswers : ExtractSettle(ref, answer)
    \/ \E n \in NodeIds : FetchJoin(n)
    \/ \E n \in NodeIds : RecurseJoin(n)
    \/ GenerateReport
    \/ \E answer \in TextAnswers : ReportSettle(answer)

Spec == Init /\ [][Next]_vars

(***************************************************************************)
(* JSON.parse on texts over the characters the model's answers use:        *)
(* brackets, braces, double quote, backslash, comma, colon, space, the     *)
(* digits, backtick (written ~) and lower-case letters other than u (so no \u escape   *)
(* and no literal true, false or null can be spelt).  A value is a record  *)
(* [t, text, items]: t its type, text the characters of a string or        *)
(* number, items the elements of an array or the members of an object.     *)
(***************************************************************************)

Digits == { "0", "1", "2", "3", "4", "5", "6", "7", "8", "9" }
SimpleEscapes == { "\"", "\\", "/", "b", "f", "n", "r", "t" }

\* The character an escape stands for (backspace is written \b).
Unescape(c) ==
    CASE c = "n" -> "\n"
      [] c = "t" -> "\t"
      [] c = "r" -> "\r"
      [] c = "f" -> "\f"
      [] c = "b" -> "\\b"
      [] OTHER -> c

JsonValue(t, text, items) == [t |-> t, text |-> text, items |-> items]
NoValue == JsonValue("none", << >>, << >>)
SyntaxError == [ok |-> FALSE, value |-> NoValue, pos |-> 0]
Parsed(v, pos) == [ok |-> TRUE, value |-> v, pos |-> pos]

\* The first position from i on that holds no white space.
RECURSIVE SkipWs(_, _)
SkipWs(t, i) == IF i <= Len(t) /\ t[i] = " " THEN SkipWs(t, i + 1) ELSE i

\* A later member with the same key replaces the value of the earlier one.
PutMember(members, key, v) ==
    IF \E k \in 1..Len(members) : members[k].text = key
    THEN [k \in 1..Len(members) |->
             IF members[k].text = key THEN JsonValue("member", key, << v >>)
             ELSE members[k]]
    ELSE Append(members, JsonValue("member", key, << v >>))

\* The characters of a string, from the position after its opening quote.
RECURSIVE parseString(_, _, _)
parseString(t, i, acc) ==
    IF i > Len(t) THEN SyntaxError
    ELSE IF t[i] = "\"" THEN Parsed(JsonValue("string", acc, << >>), i + 1)
    ELSE IF t[i] = "\\"
    THEN IF i + 1 <= Len(t) /\ t[i + 1] \in SimpleEscapes
         THEN parseString(t, i + 2, Append(acc, Unescape(t[i + 1])))
         ELSE SyntaxError
    ELSE parseString(t, i + 1, Append(acc, t[i]))

RECURSIVE DigitsEnd(_, _)
DigitsEnd(t, i) == IF i <= Len(t) /\ t[i] \in Digits THEN DigitsEnd(t, i + 1) ELSE i

\* An integer without sign: 0, or digits not starting with 0.
parseNumber(t, i) ==
    IF t[i] = "0" THEN Parsed(JsonValue("number", << "0" >>, << >>), i + 1)
    ELSE Parsed(JsonValue("number", SubSeq(t, i, DigitsEnd(t, i) - 1), << >>),
                DigitsEnd(t, i))

RECURSIVE parseValue(_, _)
RECURSIVE parseElements(_, _, _)
RECURSIVE parseMembers(_, _, _)

\* The value that starts at position i.
parseValue(t, i) ==
    IF i > Len(t) THEN SyntaxError
    ELSE IF t[i] = "["
    THEN LET j == SkipWs(t, i + 1)
         IN IF j <= Len(t) /\ t[j] = "]"
            THEN Parsed(JsonValue("array", << >>, << >>), j + 1)
            ELSE parseElements(t, i + 1, << >>)
    ELSE IF t[i] = "{"
    THEN LET j == SkipWs(t, i + 1)
         IN IF j <= Len(t) /\ t[j] = "}"
            THEN Parsed(JsonValue("object", << >>, << >>), j + 1)
            ELSE parseMembers(t, i + 1, << >>)
    ELSE IF t[i] = "\"" THEN parseString(t, i + 1, << >>)
    ELSE IF t[i] \in Digits THEN parseNumber(t, i)
    ELSE SyntaxError

\* The elements of an array after those in acc, up to its closing bracket.
parseElements(t, i, acc) ==
    LET v == parseValue(t, SkipWs(t, i))
        j == SkipWs(t, v.pos)
    IN IF ~v.ok THEN SyntaxError
       ELSE IF j > Len(t) THEN SyntaxError
       ELSE IF t[j] = "," THEN parseElements(t, j + 1, Append(acc, v.value))
       ELSE IF t[j] = "]"
       THEN Parsed(JsonValue("array", << >>, Append(acc, v.value)), j + 1)
       ELSE SyntaxError

\* The members of an object after those in acc, up to its closing brace.
parseMembers(t, i, acc) ==
    LET k == SkipWs(t, i)
        key == parseString(t, k + 1, << >>)
        c == SkipWs(t, key.pos)
        v == parseValue(t, SkipWs(t, c + 1))
        j == SkipWs(t, v.pos)
    IN IF k > Len(t) \/ t[k] # "\"" THEN SyntaxError
       ELSE IF ~key.ok THEN SyntaxError
       ELSE IF c > Len(t) \/ t[c] # ":" THEN SyntaxError
       ELSE IF ~v.ok THEN SyntaxError
       ELSE IF j > Len(t) THEN SyntaxError
       ELSE IF t[j] = ","
       THEN parseMembers(t, j + 1, PutMember(acc, key.value.text, v.value))
       ELSE IF t[j] = "}"
       THEN Parsed(JsonValue("object", << >>, PutMember(acc, key.value.text, v.value)),
                   j + 1)
       ELSE SyntaxError

\* JSON.parse(text): one value with white space around it, or a SyntaxError.
JSONparse(text) ==
    LET v == parseValue(text, SkipWs(text, 1))
    IN IF v.ok /\ SkipWs(text, v.pos) > Len(text)
       THEN [ok |-> TRUE, value |-> v.value]
       ELSE [ok |-> FALSE, value |-> NoValue]

(***************************************************************************)
(* parseModelJsonOutput and extractFirstJsonValue (ddg.ts)                 *)
(***************************************************************************)

RECURSIVE LastNonWs(_, _)
LastNonWs(t, i) == IF i >= 1 /\ t[i] = " " THEN LastNonWs(t, i - 1) ELSE i

\* String.prototype.trim
Trim(t) == SubSeq(t, SkipWs(t, 1), LastNonWs(t, Len(t)))
RTrim(t) == SubSeq(t, 1, LastNonWs(t, Len(t)))

\* The backtick is written ~ in the model's texts.
Backtick == "~"

\* Three backticks start at position p.
FenceAt(t, p) ==
    p + 2 <= Len(t) /\ t[p] = Backtick /\ t[p + 1] = Backtick /\ t[p + 2] = Backtick

\* The first fence at or after position i, 0 if there is none.
RECURSIVE NextFence(_, _)
NextFence(t, i) ==
    IF i > Len(t) THEN 0 ELSE IF FenceAt(t, i) THEN i ELSE NextFence(t, i + 1)

\* The position after the fence at p and its optional tag json.
AfterTag(t, p) ==
    IF p + 6 <= Len(t) /\ LowerSeq(SubSeq(t, p + 3, p + 6)) = << "j", "s", "o", "n" >>
    THEN p + 7
    ELSE p + 3

\* trimmed.matchAll(fencedBlockRegex): the captures of the matches found
\* from position from on, left to right without overlap.  A
\* match opens at a fence, skips the tag and white space, and captures up to
\* the white space before the next fence.
RECURSIVE fencedBlocks(_, _)
fencedBlocks(t, from) ==
    LET p == NextFence(t, from)
        cs == SkipWs(t, AfterTag(t, p))
        q == NextFence(t, cs)
    IN IF p = 0 THEN << >>
       ELSE IF q = 0 THEN fencedBlocks(t, p + 1)
       ELSE << RTrim(SubSeq(t, cs, q - 1)) >> \o fencedBlocks(t, q + 3)

\* The loop over the blocks: an empty candidate is skipped, the first
\* candidate that JSON.parse accepts is returned.
RECURSIVE firstParsedBlock(_)
firstParsedBlock(blocks) ==
    IF blocks = << >> THEN [ok |-> FALSE, value |-> NoValue]
    ELSE LET candidate == Trim(Head(blocks))
         IN IF candidate = << >> THEN firstParsedBlock(Tail(blocks))
            ELSE IF JSONparse(candidate).ok THEN JSONparse(candidate)
            ELSE firstParsedBlock(Tail(blocks))

\* Faulty variant: a backslash in a string escapes nothing.
escapesNever(ch) == FALSE

\* if (ch === "\\") escaping = true
escapes(ch) == ch = "\\"

ScanStart ==
    [start |-> 0, depth |-> 0, inString |-> FALSE, escaping |-> FALSE,
     opening |-> "", closing |-> ""]
NoSpan == [found |-> FALSE, text |-> << >>]

\* The loop of extractFirstJsonValue from position i on (start = 0: no
\* opening bracket met yet).
RECURSIVE scan(_, _, _)
scan(input, i, st) ==
    IF i > Len(input) THEN NoSpan
    ELSE LET ch == input[i]
             d1 == IF ch = st.opening THEN st.depth + 1 ELSE st.depth
             d2 == IF ch = st.closing THEN d1 - 1 ELSE d1
         IN IF st.inString
            THEN IF st.escaping THEN scan(input, i + 1, [st EXCEPT !.escaping = FALSE])
                 ELSE IF escapes(ch) THEN scan(input, i + 1, [st EXCEPT !.escaping = TRUE])
                 ELSE IF ch = "\"" THEN scan(input, i + 1, [st EXCEPT !.inString = FALSE])
                 ELSE scan(input, i + 1, st)
            ELSE IF ch = "\"" THEN scan(input, i + 1, [st EXCEPT !.inString = TRUE])
            ELSE IF st.start = 0
            THEN IF ch = "{" \/ ch = "["
                 THEN scan(input, i + 1,
                           [st EXCEPT !.start = i, !.opening = ch,
                                      !.closing = IF ch = "{" THEN "}" ELSE "]",
                                      !.depth = 1])
                 ELSE scan(input, i + 1, st)
            ELSE IF ch = st.closing /\ d2 = 0
            THEN [found |-> TRUE, text |-> SubSeq(input, st.start, i)]
            ELSE scan(input, i + 1, [st EXCEPT !.depth = d2])

extractFirstJsonValue(input) == scan(input, 1, ScanStart)

ParseFailure(error) == [ok |-> FALSE, value |-> NoValue, error |-> error]
ParseSuccess(v) == [ok |-> TRUE, value |-> v, error |-> "none"]

\* Faulty variant: the embedded-value scan is tried before the fenced blocks.
parseModelJsonOutputScanFirst(raw) ==
    LET trimmed == Trim(raw)
        direct == JSONparse(trimmed)
        fenced == firstParsedBlock(fencedBlocks(trimmed, 1))
        embedded == extractFirstJsonValue(trimmed)
        inner == JSONparse(embedded.text)
    IN IF direct.ok THEN ParseSuccess(direct.value)
       ELSE IF embedded.found /\ inner.ok THEN ParseSuccess(inner.value)
       ELSE IF fenced.ok THEN ParseSuccess(fenced.value)
       ELSE IF embedded.found THEN ParseFailure("SyntaxError")
       ELSE ParseFailure("Unable to parse JSON from model response")

\* parseModelJsonOutput(raw): the value, or the error thrown.
parseModelJsonOutput(raw) ==
    LET trimmed == Trim(raw)
        direct == JSONparse(trimmed)
        fenced == firstParsedBlock(fencedBlocks(trimmed, 1))
        embedded == extractFirstJsonValue(trimmed)
        inner == JSONparse(embedded.text)
    IN IF direct.ok THEN ParseSuccess(direct.value)
       ELSE IF fenced.ok THEN ParseSuccess(fenced.value)
       ELSE IF embedded.found
       THEN IF inner.ok THEN ParseSuccess(inner.value) ELSE ParseFailure("SyntaxError")
       ELSE ParseFailure("Unable to parse JSON from model response")

(***************************************************************************)
(* Helpers called on their own.  The engine is constructed and idle; one   *)
(* call is made with arguments drawn from the sets below.                  *)
(***************************************************************************)

EngineIdle ==
    /\ config = [depth |-> 0, breadth |-> 1, concurrency |-> 1,
                 learningsPerChunk |-> 1, maxSearchResultsPerQuery |-> 1]
    /\ state = [learnings |-> << >>, visitedUrls |-> {},
                tokenUsage |-> [prompt |-> 0, completion |-> 0, total |-> 0]]
    /\ log = EmptyBag
    /\ nodes = << >>
    /\ queue = << >>
    /\ active = {}
    /\ runStatus = "idle"
    /\ report = "none"

engineVars == << config, state, log, nodes, queue, active, runStatus, report >>

\* Patterns given to new Screener(blacklistPatterns, whitelistPatterns):
\* A.CO, b.co, /a and x, as literal texts.
ScreenPatterns ==
    { << "A", ".", "C", "O" >>, << "b", ".", "c", "o" >>, << "/", "a" >>, << "x" >> }
PatternLists == UNION { [1..k -> ScreenPatterns] : k \in 0..MaxPatterns }

ScreenInit ==
    /\ EngineIdle
    /\ call \in [op : { "isAllowed" }, url : Hrefs, blacklist : PatternLists,
                 whitelist : PatternLists, done : { FALSE }, result : { FALSE }]

\* new Screener(blacklist, whitelist).isAllowed(url)
IsAllowedCall ==
    /\ call.op = "isAllowed"
    /\ ~call.done
    /\ call' = [call EXCEPT !.done = TRUE,
                            !.result = isAllowed(call.url, call.blacklist, call.whitelist)]
    /\ UNCHANGED engineVars

ScreenNext == IsAllowedCall

ScreenSpec == ScreenInit /\ [][ScreenNext]_vars

\* Model answers given to the parser: every text of up to MaxTextLen
\* characters over brackets, braces, double quote and backslash, and texts
\* put together from a preamble, a body and a trailer.
ScanChars == { "[", "]", "{", "}", "\"", "\\" }
ShortTexts == UNION { [1..k -> ScanChars] : k \in 0..MaxTextLen }

\* Nothing, a space, prose, prose with a double quote, a bracketed span,
\* an opening fence, a tagged fence, a block of prose followed by a fence,
\* an array followed by a block of prose and a fence.
Preambles ==
    { << >>,
      << " " >>,
      << "a", " " >>,
      << "a", "\"", " " >>,
      << "[", "a", "]", " " >>,
      << Backtick, Backtick, Backtick >>,
      << Backtick, Backtick, Backtick, "j", "s", "o", "n", " " >>,
      << Backtick, Backtick, Backtick, "a", Backtick, Backtick, Backtick, " ",
         Backtick, Backtick, Backtick >>,
      << "[", "]", " ", Backtick, Backtick, Backtick, "a", Backtick, Backtick, Backtick,
         " ", Backtick, Backtick, Backtick >> }

\* JSON values, and texts JSON.parse rejects.
Bodies ==
    { << "[", "]" >>,
      << "{", "\"", "a", "\"", ":", "1", "}" >>,
      << "{", "\"", "a", "\"", ":", "[", "\"", "b", "\"", "]", ",", "\"", "c", "\"", ":", "[", "]", "}" >>,
      << "[", "\"", "]", "\"", "]" >>,
      << "[", "\"", "\\", "\"", "\"", "]" >>,
      << "[", "\"", "\\", "\"", "]", "\"", "]" >>,
      << "[", "1" >>,
      << "a" >>,
      << "[", "1", ",", "[", "0", "]", "]" >>,
      << "{", "\"", "a", "\"", ":", "1", ",", "\"", "a", "\"", ":", "0", "}" >>,
      << "\"", "a", "\"" >>,
      << "1", "0" >>,
      << "0", "1" >> }

\* Nothing, a space, prose, a closing fence, a fenced block, a bracket.
Trailers ==
    { << >>,
      << " " >>,
      << " ", "a" >>,
      << Backtick, Backtick, Backtick >>,
      << " ", Backtick, Backtick, Backtick, "[", "1", "]", Backtick, Backtick, Backtick >>,
      << "]" >> }

FramedTexts == { a \o b \o c : a \in Preambles, b \in Bodies, c \in Trailers }
ParseInputs == ShortTexts \cup FramedTexts

ParseInit ==
    /\ EngineIdle
    /\ call \in [op : { "parse", "extract" }, raw : ParseInputs, done : { FALSE },
                 result : { NoSpan }]

\* parseModelJsonOutput(raw)
ParseCall ==
    /\ call.op = "parse"
    /\ ~call.done
    /\ call' = [call EXCEPT !.done = TRUE, !.result = parseModelJsonOutput(call.raw)]
    /\ UNCHANGED engineVars

\* extractFirstJsonValue(input)
ExtractCall ==
    /\ call.op = "extract"
    /\ ~call.done
    /\ call' = [call EXCEPT !.done = TRUE, !.result = extractFirstJsonValue(call.raw)]
    /\ UNCHANGED engineVars

ParseNext == ParseCall \/ ExtractCall

ParseSpec == ParseInit /\ [][ParseNext]_vars

(***************************************************************************)
(* LLMClient.generateObject (ddg.ts 309-342) and the zod schemas of the    *)
(* engine.  A response of the provider is a failure of the request, or a   *)
(* message content with the usage the provider reports.                    *)
(***************************************************************************)

KeyQueries == << "q", "u", "e", "r", "i", "e", "s" >>
KeyLearnings == << "l", "e", "a", "r", "n", "i", "n", "g", "s" >>
KeyFollowUps ==
    << "f", "o", "l", "l", "o", "w", "U", "p", "Q", "u", "e", "s", "t", "i", "o", "n", "s" >>

\* z.object({ queries: z.array(z.string()) })
SerpQueriesSchema == << KeyQueries >>
\* z.object({ learnings: z.array(z.string()), followUpQuestions: z.array(z.string()) })
LearningsSchema == << KeyLearnings, KeyFollowUps >>

\* The value of the member named key (the object has one).
MemberOf(v, key) ==
    LET k == CHOOSE k \in 1..Len(v.items) : v.items[k].text = key
    IN v.items[k].items[1]
HasMember(v, key) == \E k \in 1..Len(v.items) : v.items[k].text = key

\* Faulty variant: the elements of an array are not looked at.
zArrayOfStringUnchecked(v) == v.t = "array"

\* z.array(z.string()).parse(v) succeeds
zArrayOfString(v) ==
    v.t = "array" /\ \A k \in 1..Len(v.items) : v.items[k].t = "string"

\* schema.parse(v): the object with the members of the schema (others are
\* stripped), or a ZodError.
schemaParse(schema, v) ==
    IF /\ v.t = "object"
       /\ \A s \in 1..Len(schema) :
              HasMember(v, schema[s]) /\ zArrayOfString(MemberOf(v, schema[s]))
    THEN [ok |-> TRUE,
          object |-> [s \in 1..Len(schema) |-> MemberOf(v, schema[s]).items]]
    ELSE [ok |-> FALSE, object |-> << >>]

ObjectFailure(error) ==
    [threw |-> TRUE, error |-> error, object |-> << >>, usage |-> NoUsage]

\* generateObject(prompt, schema, systemPrompt), given the provider's response.
generateObject(response, schema) ==
    LET parsed == parseModelJsonOutput(response.content)
        object == schemaParse(schema, parsed.value)
    IN IF ~response.ok THEN ObjectFailure("provider")
       ELSE IF response.content = << >> THEN ObjectFailure("No content received from LLM")
       ELSE IF ~parsed.ok THEN ObjectFailure(parsed.error)
       ELSE IF ~object.ok THEN ObjectFailure("ZodError")
       ELSE [threw |-> FALSE, error |-> "none", object |-> object.object,
             usage |-> response.usage]

\* What the engine's steps take as the answer of a generation: whether
\* generateObject returned, and how many items the object holds.
GenAnswerOf(g) ==
    IF g.threw THEN [ok |-> FALSE, count |-> 0, usage |-> NoUsage]
    ELSE [ok |-> TRUE, count |-> Len(g.object[1]), usage |-> g.usage]
ExtractAnswerOf(g) ==
    IF g.threw THEN [ok |-> FALSE, learnings |-> 0, followUps |-> 0, usage |-> NoUsage]
    ELSE [ok |-> TRUE, learnings |-> Len(g.object[1]), followUps |-> Len(g.object[2]),
          usage |-> g.usage]

\* Message contents: objects with one or two members whose values are arrays
\* of strings, arrays with other elements, or no arrays; other JSON values;
\* a fenced object; prose; nothing.
Quoted(s) == << "\"" >> \o s \o << "\"" >>
Member(key, value) == Quoted(key) \o << ":" >> \o value
MemberValues ==
    { << "[", "\"", "a", "\"", "]" >>,
      << "[", "\"", "a", "\"", ",", "\"", "b", "\"", ",", "\"", "c", "\"", "]" >>,
      << "[", "]" >>,
      << "[", "1", "]" >>,
      << "[", "\"", "a", "\"", ",", "1", "]" >>,
      << "[", "[", "\"", "a", "\"", "]", "]" >>,
      << "\"", "a", "\"" >>,
      << "{", "}" >> }
ObjectContents ==
    { << "{" >> \o Member(k, v) \o << "}" >> :
        k \in { KeyQueries, KeyLearnings, << "a" >> }, v \in MemberValues }
    \cup { << "{" >> \o Member(KeyLearnings, v) \o << "," >> \o Member(KeyFollowUps, w)
           \o << "}" >> : v \in MemberValues, w \in MemberValues }
    \cup { << Backtick, Backtick, Backtick, "j", "s", "o", "n", " ", "{" >>
           \o Member(KeyQueries, v) \o << "}", Backtick, Backtick, Backtick >> :
             v \in MemberValues }
    \cup { << >>, << "a" >>, << "[", "]" >>, << "[", "\"", "a", "\"", "]" >>,
           << "{", "\"", "a", "\"", ":" >> }
Responses ==
    { [ok |-> FALSE, content |-> << >>, usage |-> NoUsage] }
    \cup [ok : { TRUE }, content : ObjectContents, usage : UsageReports]

ObjectInit ==
    /\ EngineIdle
    /\ call \in [op : { "generateQueries", "processContent" }, response : Responses,
                 done : { FALSE }, result : { NoSpan }]

\* generateQueries(prompt, breadth), the provider answering with call.response
GenerateQueriesCall ==
    /\ call.op = "generateQueries"
    /\ ~call.done
    /\ call' = [call EXCEPT
                  !.done = TRUE,
                  !.result = generateQueries(Topic, config.breadth,
                                 GenAnswerOf(generateObject(call.response,
                                                            SerpQueriesSchema)))]
    /\ UNCHANGED engineVars

\* processContent(query, content), the provider answering with call.response
ProcessContentCall ==
    /\ call.op = "processContent"
    /\ ~call.done
    /\ call' = [call EXCEPT
                  !.done = TRUE,
                  !.result = processContent(
                                 ExtractAnswerOf(generateObject(call.response,
                                                                LearningsSchema)))]
    /\ UNCHANGED engineVars

ObjectNext == GenerateQueriesCall \/ ProcessContentCall

ObjectSpec == ObjectInit /\ [][ObjectNext]_vars

(***************************************************************************)
(* The token accumulator over a sequence of generation calls.  Each call   *)
(* is answered by the provider with a content and the usage it reports;    *)
(* updateUsage runs only when generateObject has returned.                 *)
(***************************************************************************)

\* Usage objects of a response: none, or three counts as the provider gives
\* them (total_tokens is a number the provider sends, not one the client
\* computes).
UsageValues ==
    { NoUsage }
    \cup [reported : { TRUE }, prompt_tokens : 0..MaxTokens,
          completion_tokens : 0..MaxTokens, total_tokens : 0..(2 * MaxTokens)]

\* { "queries": ["a"] } and { "queries": [1] }
UsageContents ==
    { << "{" >> \o Member(KeyQueries, << "[", "\"", "a", "\"", "]" >>) \o << "}" >>,
      << "{" >> \o Member(KeyQueries, << "[", "1", "]" >>) \o << "}" >> }
UsageResponses == [ok : { TRUE }, content : UsageContents, usage : UsageValues]

UsageInit ==
    /\ EngineIdle
    /\ call = [op |-> "generation", calls |-> 0, prompts |-> 0, completions |-> 0]

\* One generateQueries call answered by the provider: the usage is added
\* when generateObject returned, an error event is logged when it threw.
\* call keeps the number of calls and the sums of the reported counts.
GenerationCall(response) ==
    /\ call.op = "generation"
    /\ call.calls < MaxCalls
    /\ LET r == generateQueries(Topic, config.breadth,
                                GenAnswerOf(generateObject(response, SerpQueriesSchema)))
       IN /\ state' = [state EXCEPT !.tokenUsage = updateUsage(@, r.usage)]
          /\ log' = Emit(log, r.events)
    /\ call' = [call EXCEPT !.calls = @ + 1,
                            !.prompts = @ + response.usage.prompt_tokens,
                            !.completions = @ + response.usage.completion_tokens]
    /\ UNCHANGED << config, nodes, queue, active, runStatus, report >>

UsageNext == \E response \in UsageResponses : GenerationCall(response)

UsageSpec == UsageInit /\ [][UsageNext]_vars

\* canonicalize(raw), and canonicalize of its result.
CanonInit ==
    /\ EngineIdle
    /\ call \in [op : { "canonicalize" }, raw : { Href(u) : u \in UrlSpace },
                 done : { FALSE }, result : { << >> }, again : { << >> }]

CanonicalizeCall ==
    /\ call.op = "canonicalize"
    /\ ~call.done
    /\ call' = [call EXCEPT !.done = TRUE,
                            !.result = canonicalize(call.raw),
                            !.again = canonicalize(canonicalize(call.raw))]
    /\ UNCHANGED engineVars

CanonNext == CanonicalizeCall

CanonSpec == CanonInit /\ [][CanonNext]_vars

(***************************************************************************)
(* One search task of a node on its own: the engine is constructed with a  *)
(* maxSearchResultsPerQuery of up to MaxQuota and nothing is visited; the  *)
(* backend lists up to MaxListed distinct pages, with or without a login   *)
(* page in front.                                                          *)
(***************************************************************************)

MaxQuota == SearchLimit + 1
MaxListed == SearchLimit + 2

\* h://a.co/a?a=i
PageUrl(i) ==
    [scheme |-> << "h" >>, host |-> << "a", ".", "c", "o" >>, path |-> << "/", "a" >>,
     query |-> << Param(<< "a" >>, << i >>) >>, frag |-> << >>]
PageNumbers == << "1", "2", "3", "4", "5", "6", "7", "8", "9" >>
ResultPage(k) == [i \in 1..k |-> Href(PageUrl(PageNumbers[i]))]
ResultPages ==
    { ResultPage(k) : k \in 0..MaxListed }
    \cup { << Href(UrlLogin) >> \o ResultPage(k) : k \in 0..MaxListed }

SearchInit ==
    /\ config \in [depth : { 1 }, breadth : { 1 }, concurrency : { 1 },
                   learningsPerChunk : { 1 }, maxSearchResultsPerQuery : 1..MaxQuota]
    /\ state = [learnings |-> << >>, visitedUrls |-> {},
                tokenUsage |-> [prompt |-> 0, completion |-> 0, total |-> 0]]
    /\ log = EmptyBag
    /\ nodes = << >>
    /\ queue = << >>
    /\ active = {}
    /\ runStatus = "idle"
    /\ report = "none"
    /\ call \in [op : { "searchTask" }, hits : ResultPages, done : { FALSE },
                 found : { << >> }, results : { << >> }]

\* The body of a search task for the query Topic: search, log, filter and
\* slice, mark visited, return.
SearchTaskCall ==
    /\ call.op = "searchTask"
    /\ ~call.done
    /\ LET results == search([ok |-> TRUE, hits |-> call.hits])
           newResults == newResultsOf(results, state.visitedUrls)
       IN /\ log' = Emit(log, << [type |-> "search", query |-> Topic,
                                     results_count |-> Len(results)] >>)
          /\ state' = [state EXCEPT !.visitedUrls = markVisited(@, newResults)]
          /\ call' = [call EXCEPT !.done = TRUE, !.found = results,
                                  !.results = newResults]
    /\ UNCHANGED << config, nodes, queue, active, runStatus, report >>

SearchNext == SearchTaskCall

SearchSpec == SearchInit /\ [][SearchNext]_vars

(***************************************************************************)
(* Properties                                                              *)
(***************************************************************************)

InitialState ==
    [learnings |-> << >>, visitedUrls |-> {},
     tokenUsage |-> [prompt |-> 0, completion |-> 0, total |-> 0]]

\* The search tasks created so far, as (node, index) pairs.
SearchTasks == { ref \in [kind : { "search" }, node : NodeIds, idx : 1..MaxGen] :
                   ref.idx <= Len(nodes[ref.node].search) }
SearchTask(ref) == nodes[ref.node].search[ref.idx]

FetchTasks == UNION { { FetchRef(n, i) : i \in 1..Len(nodes[n].fetch) } : n \in NodeIds }
FetchTask(ref) == nodes[ref.node].fetch[ref.idx]

Logged(event) == BagIn(event, log)

\* Provider calls awaiting an answer: searches and fetch/extract calls run
\* inside active limit tasks, generateQueries inside the node's own call.
InFlight ==
    Cardinality({ ref \in active : ref.kind \in { "search", "fetch" } })
    + Cardinality({ n \in NodeIds : Generating(n) })

\* C1: at every moment of a run the provider calls in flight (search, fetch,
\* extraction, query generation), over all nodes of the tree, number at most
\* config.concurrency.
C1_InFlightWithinBudget == InFlight <= config.concurrency

\* Two sub-branches generate queries at once, filling a budget of two.
C1_Witness ==
    /\ config.concurrency = 2
    /\ InFlight = 2
    /\ \E ref \in active : ref.kind = "recurse" /\ Generating(ref.node)

\* C2: a run in progress can always take a step (it never stalls with
\* every slot held by sub-branches that wait for their own queued tasks), so
\* that run returns once every provider call has settled.
C2_RunNeverStalls == runStatus = "running" => ENABLED Next

\* C3: run never rejects, whatever query generations, searches, fetches and
\* extractions fail.
C3_RunNeverRejects ==
    /\ runStatus # "rejected"
    /\ \A n \in NodeIds : nodes[n].phase # "rejected"

\* run has returned after a failed query generation, a failed fetch and a
\* failed extraction.
C3_Witness ==
    /\ runStatus = "returned"
    /\ Logged(ErrorEvent("Failed to generate queries"))
    /\ Logged(ErrorEvent("Failed to process content"))
    /\ \E h \in Hrefs : Logged([type |-> "scrape", url |-> h, status |-> "failed"])

\* C4: with config.depth <= 0 run returns without a call of any provider
\* (no call of _researchRecursive gets past the depth test, no task is handed
\* to the limit), without a log event and with the state as constructed.
C4_DepthZeroIsNoOp ==
    (config.depth <= 0 /\ report = "none") =>
        /\ nodes = << >>
        /\ queue = << >>
        /\ active = {}
        /\ log = EmptyBag
        /\ state = InitialState

C4_Witness == config.depth = 0 /\ runStatus = "returned" /\ report = "none"

\* C5: no href is admitted for fetching by two different search tasks.
C5_NoUrlAdmittedTwice ==
    \A a, b \in SearchTasks :
        a # b => Range(SearchTask(a).results) \cap Range(SearchTask(b).results) = {}

\* An href admitted by one task was found and rejected by another.
C5_Witness ==
    \E a, b \in SearchTasks, h \in Hrefs :
        /\ a # b
        /\ h \in Range(SearchTask(a).results)
        /\ h \in Range(SearchTask(b).found)
        /\ h \notin Range(SearchTask(b).results)

\* C6: the results one search call queues for fetching hold no href twice.
C6_NoDuplicateInBatch ==
    \A a \in SearchTasks :
        \A i, j \in 1..Len(SearchTask(a).results) :
            i # j => SearchTask(a).results[i] # SearchTask(a).results[j]

\* C7: of the hrefs that canonicalize identically at most one is admitted
\* (marked visited and fetched) in a run.
C7_CanonicalDedup ==
    \A h1, h2 \in state.visitedUrls :
        canonicalize(h1) = canonicalize(h2) => h1 = h2

\* C8: no two sources (the distinct places the state records) share a
\* canonical URL, and every learning names a recorded source.
C8_DedupInvariant ==
    /\ \A h1, h2 \in state.visitedUrls :
           canonicalize(h1) = canonicalize(h2) => h1 = h2
    /\ \A i \in 1..Len(state.learnings) :
           state.learnings[i].sourceUrl \in state.visitedUrls

\* The visited set holds every admitted href: those of the search results,
\* those being fetched, and those learnings are attributed to.
AdmittedAreVisited ==
    /\ \A a \in SearchTasks : Range(SearchTask(a).results) \subseteq state.visitedUrls
    /\ \A f \in FetchTasks : FetchTask(f).url \in state.visitedUrls
    /\ \A i \in 1..Len(state.learnings) :
           state.learnings[i].sourceUrl \in state.visitedUrls

\* C9: the visited set holds every href admitted at search time, before its
\* fetch starts and before a learning is attributed to it, and it only grows.
C9_VisitedSuperset ==
    /\ []AdmittedAreVisited
    /\ [][state.visitedUrls \subseteq state'.visitedUrls]_vars

\* A learning has been appended, a fetch of another href has failed, and
\* both hrefs are visited.
C9_Witness ==
    /\ Len(state.learnings) > 0
    /\ \E h \in Hrefs :
          /\ Logged([type |-> "scrape", url |-> h, status |-> "failed"])
          /\ h \in state.visitedUrls
          /\ \A i \in 1..Len(state.learnings) : state.learnings[i].sourceUrl # h

\* C10: generateReport refuses below two distinct sources: the text
\* provider is called only when at least two sources exist.
C10_ReportNeedsTwoSources ==
    report # "none" => Cardinality(state.visitedUrls) >= 2

\* C11: generateReport goes to synthesis with fewer than 3 distinct sources
\* only after DiversityGuard.ensure has run its research rounds.  The only
\* provider call generateReport makes is the text generation (it creates no
\* node and hands no task to the limit), so a text request with fewer than 3
\* sources is a synthesis the guard did not precede.
C11_DiversityGuardBeforeSynthesis ==
    report # "none" => Cardinality(state.visitedUrls) >= 3

GenerationFailed == ErrorEvent("Failed to generate queries")
ExtractionFailed == ErrorEvent("Failed to process content")

\* C12: when the query generation of a node fails, one error event is logged,
\* the node's queries are its prompt alone, and one search task for that
\* query is handed to the limit (at the root, where no other task exists, it
\* starts at once).
C12_FallbackToPrompt ==
    [][\A n \in NodeIds, answer \in GenAnswers :
          (GenSettle(n, answer) /\ ~answer.ok) =>
              /\ CopiesIn(GenerationFailed, log') = CopiesIn(GenerationFailed, log) + 1
              /\ nodes'[n].queries = << nodes[n].prompt >>
              /\ Len(nodes'[n].search) = 1
              /\ nodes'[n].search[1].query = nodes[n].prompt
              /\ SearchRef(n, 1) \in active' \cup Range(queue')
              /\ (nodes[n].parent = 0 => SearchRef(n, 1) \in active')]_vars

\* A sub-branch whose generation failed has searched for its prompt.
C12_Witness ==
    /\ Logged(GenerationFailed)
    /\ \E n \in NodeIds :
          /\ nodes[n].parent # 0
          /\ nodes[n].queries = << nodes[n].prompt >>
          /\ Len(nodes[n].search) = 1
          /\ nodes[n].search[1].status = "done"

\* The learnings appended by a step.
Appended == SubSeq(state.learnings', Len(state.learnings) + 1, Len(state.learnings'))

\* C13: a failing extraction logs one error event and nothing else, and its
\* task returns no learning and no follow-up instead of rejecting; when the
\* batch is joined, every learning of every task of the node is appended to
\* the state and the node goes on (it recurses or returns, it never rejects).
C13_ExtractionFailureIsContained ==
    [][/\ \A ref \in active, answer \in ExtractAnswers :
             (ExtractSettle(ref, answer) /\ ~answer.ok) =>
                 /\ CopiesIn(ExtractionFailed, log') = CopiesIn(ExtractionFailed, log) + 1
                 /\ BagCardinality(log') = BagCardinality(log) + 1
                 /\ nodes'[ref.node].fetch[ref.idx].stage = "done"
                 /\ ~nodes'[ref.node].fetch[ref.idx].res.null
                 /\ nodes'[ref.node].fetch[ref.idx].res.learnings = << >>
                 /\ nodes'[ref.node].fetch[ref.idx].res.followUpQuestions = << >>
                 /\ state'.learnings = state.learnings
       /\ \A n \in NodeIds :
             (FetchJoinReady(n) /\ FetchJoin(n)) =>
                 /\ \A i \in 1..Len(nodes[n].fetch) :
                       \A k \in 1..Len(nodes[n].fetch[i].res.learnings) :
                           [text |-> nodes[n].fetch[i].res.learnings[k],
                            sourceUrl |-> nodes[n].fetch[i].url,
                            sourceQuery |-> nodes[n].fetch[i].query] \in Range(Appended)
                 /\ IF nodes[n].parent = 0 /\ nodes' = << >>
                    THEN runStatus' = "returned"
                    ELSE nodes'[n].phase \in { "recursing", "done" }]_vars

\* The root has joined a batch in which one extraction failed and a later
\* one yielded a learning, which is in the state; the root recurses.
C13_Witness ==
    /\ Logged(ExtractionFailed)
    /\ Len(nodes) > 1
    /\ nodes[1].phase = "recursing"
    /\ \A n \in NodeIds : n > 1 => nodes[n].phase = "generating"
    /\ \E i, j \in 1..Len(nodes[1].fetch) :
          /\ i < j
          /\ ~nodes[1].fetch[i].res.null
          /\ nodes[1].fetch[i].res.learnings = << >>
          /\ nodes[1].fetch[i].res.followUpQuestions = << >>
          /\ nodes[1].fetch[j].res.learnings # << >>
          /\ \E k \in 1..Len(state.learnings) :
                state.learnings[k].sourceUrl = nodes[1].fetch[j].url

ScrapeEvent(h, status) == [type |-> "scrape", url |-> h, status |-> status]
ScrapeCount(h) ==
    CopiesIn(ScrapeEvent(h, "failed"), log) + CopiesIn(ScrapeEvent(h, "success"), log)

\* C14: for every URL queued for fetching exactly one scrape event is
\* logged: none before its fetch has settled, one from then on, and never a
\* second one; an extraction is requested only after the success event.
C14_OneScrapeEventPerUrl ==
    /\ \A h \in Hrefs : ScrapeCount(h) <= 1
    /\ \A f \in FetchTasks :
          /\ FetchTask(f).stage # "fetch" => ScrapeCount(FetchTask(f).url) >= 1
          /\ FetchTask(f).stage = "extract" =>
                Logged(ScrapeEvent(FetchTask(f).url, "success"))
          /\ ~FetchTask(f).res.null =>
                Logged(ScrapeEvent(FetchTask(f).url, "success"))

Min(a, b) == IF a < b THEN a ELSE b

Allowed(h) == isAllowed(h, screenerBlacklist, screenerWhitelist)

\* The hrefs of the model that the engine's Screener allows.
AllowedHrefs == { h \in Hrefs : Allowed(h) }

\* C17: every href that is marked visited, fetched, scraped or named as the
\* source of a learning satisfied Screener.isAllowed.
C17_OnlyScreenedUrls ==
    /\ state.visitedUrls \subseteq AllowedHrefs
    /\ \A a \in SearchTasks : Range(SearchTask(a).results) \subseteq AllowedHrefs
    /\ \A f \in FetchTasks : FetchTask(f).url \in AllowedHrefs
    /\ \A h \in Hrefs : ScrapeCount(h) > 0 => h \in AllowedHrefs
    /\ \A i \in 1..Len(state.learnings) : state.learnings[i].sourceUrl \in AllowedHrefs

\* A search found the login page and another href; only the other one was
\* fetched and gave a result.
C17_Witness ==
    /\ ~Allowed(Href(UrlLogin))
    /\ Href(UrlLogin) \notin state.visitedUrls
    /\ \E a \in SearchTasks :
          /\ Href(UrlLogin) \in Range(SearchTask(a).found)
          /\ SearchTask(a).results = << Href(UrlPlain) >>
    /\ \E f \in FetchTasks :
          /\ FetchTask(f).url = Href(UrlPlain)
          /\ FetchTask(f).stage = "done"
          /\ ~FetchTask(f).res.null


MatchesSome(patterns, url) == \E i \in 1..Len(patterns) : RegExpTest(patterns[i], url)
HasDeniedSubstring(url) == \E i \in 1..Len(defaultBlacklist) : Includes(url, defaultBlacklist[i])

\* C16: isAllowed(url) is true exactly when the allow-list is empty or url
\* matches one of its patterns, and url contains no default deny substring,
\* and url matches no configured deny pattern.
C16_ScreenerPrecedence ==
    (call.op = "isAllowed" /\ call.done) =>
        (call.result <=>
            /\ call.whitelist = << >> \/ MatchesSome(call.whitelist, call.url)
            /\ ~HasDeniedSubstring(call.url)
            /\ ~MatchesSome(call.blacklist, call.url))

\* A URL free of default deny substrings that matches both an allow and a
\* deny pattern has been rejected.
C16_Witness ==
    /\ call.op = "isAllowed"
    /\ call.done
    /\ MatchesSome(call.whitelist, call.url)
    /\ MatchesSome(call.blacklist, call.url)
    /\ ~HasDeniedSubstring(call.url)
    /\ ~call.result


\* The text holds a balanced JSON object or array that is valid JSON.
HasJson(raw) ==
    \E i, j \in 1..Len(raw) :
        i < j /\ raw[i] \in { "{", "[" } /\ JSONparse(SubSeq(raw, i, j)).ok

\* No part of the text is JSON.
NoJsonAtAll(raw) ==
    \A i, j \in 1..Len(raw) : i <= j => ~JSONparse(SubSeq(raw, i, j)).ok

\* C18: parse returns a value whenever the text holds a balanced JSON
\* object or array that is valid JSON, and fails on a text without any JSON.
C18_FailsOnlyWithoutJson ==
    (call.op = "parse" /\ call.done) =>
        /\ HasJson(call.raw) => call.result.ok
        /\ NoJsonAtAll(call.raw) => ~call.result.ok

\* The fenced blocks of the trimmed text whose interior JSON.parse accepts.
ParsableBlocks(raw) ==
    LET blocks == fencedBlocks(Trim(raw), 1)
    IN { k \in 1..Len(blocks) : JSONparse(Trim(blocks[k])).ok }
FirstParsableBlock(raw) ==
    LET blocks == fencedBlocks(Trim(raw), 1)
        k == CHOOSE k \in ParsableBlocks(raw) : \A m \in ParsableBlocks(raw) : k <= m
    IN JSONparse(Trim(blocks[k]))
EmbeddedValue(raw) ==
    LET embedded == extractFirstJsonValue(Trim(raw))
    IN IF embedded.found THEN JSONparse(embedded.text)
       ELSE [ok |-> FALSE, value |-> NoValue]

\* C19: parse returns the direct parse of the trimmed text if that succeeds;
\* otherwise the value of the first fenced block, in order of appearance,
\* whose interior parses; otherwise the value of the embedded scan; and it
\* fails when none of the three succeeds.
C19_StagesInOrder ==
    (call.op = "parse" /\ call.done) =>
        LET direct == JSONparse(Trim(call.raw))
            expected == IF direct.ok THEN direct
                        ELSE IF ParsableBlocks(call.raw) # {}
                        THEN FirstParsableBlock(call.raw)
                        ELSE EmbeddedValue(call.raw)
        IN /\ call.result.ok = expected.ok
           /\ call.result.ok => call.result.value = expected.value

\* The direct parse failed, the first fenced block does not parse, the
\* second one does, the embedded scan would yield another value, and the
\* value of the second block was returned.
C19_Witness ==
    /\ call.op = "parse"
    /\ call.done
    /\ ~JSONparse(Trim(call.raw)).ok
    /\ 1 \notin ParsableBlocks(call.raw)
    /\ 2 \in ParsableBlocks(call.raw)
    /\ EmbeddedValue(call.raw).ok
    /\ EmbeddedValue(call.raw).value # FirstParsableBlock(call.raw).value
    /\ call.result.ok
    /\ call.result.value = FirstParsableBlock(call.raw).value

\* Where the scan stands before character i: outside a string literal, in
\* one, or in one right after a backslash.
RECURSIVE StringStateBefore(_, _)
StringStateBefore(input, i) ==
    IF i = 1 THEN "out"
    ELSE LET prev == StringStateBefore(input, i - 1)
             ch == input[i - 1]
         IN IF prev = "esc" THEN "in"
            ELSE IF prev = "in"
            THEN IF ch = "\\" THEN "esc" ELSE IF ch = "\"" THEN "out" ELSE "in"
            ELSE IF ch = "\"" THEN "in" ELSE "out"

\* Character i is c and lies outside every string literal.
OutsideAt(input, i, c) == input[i] = c /\ StringStateBefore(input, i) = "out"

Closer(c) == IF c = "{" THEN "}" ELSE "]"

\* The span the scan is to return: from the first opening bracket outside a
\* string literal to the first closer of its family at which as many of its
\* closers as of its openers, outside string literals, have been met.
ExpectedSpan(input) ==
    LET openers == { i \in 1..Len(input) :
                       OutsideAt(input, i, "{") \/ OutsideAt(input, i, "[") }
        s == CHOOSE i \in openers : \A k \in openers : i <= k
        count(j, c) == Cardinality({ k \in s..j : OutsideAt(input, k, c) })
        ends == { j \in s..Len(input) :
                    /\ OutsideAt(input, j, Closer(input[s]))
                    /\ count(j, input[s]) = count(j, Closer(input[s])) }
        e == CHOOSE j \in ends : \A k \in ends : j <= k
    IN IF openers = {} THEN NoSpan
       ELSE IF ends = {} THEN NoSpan
       ELSE [found |-> TRUE, text |-> SubSeq(input, s, e)]

\* C20: for every input the embedded-value scan returns the span from the
\* first opening bracket outside a string literal to the closer of the same
\* family at which the nesting depth returns to zero, brackets in string
\* literals being ignored and a backslash in a string escaping the next
\* character; it returns nothing when there is no such span.
C20_ScanReturnsFirstBalancedSpan ==
    (call.op = "extract" /\ call.done) => call.result = ExpectedSpan(call.raw)

\* The scan has returned a span, shorter than the input, that holds an
\* escaped double quote and a closing bracket inside a string literal.
C20_Witness ==
    /\ call.op = "extract"
    /\ call.done
    /\ call.result.found
    /\ Len(call.result.text) < Len(call.raw)
    /\ \E k \in 1..Len(call.raw) :
          call.raw[k] = "\"" /\ StringStateBefore(call.raw, k) = "esc"
    /\ \E k \in 1..Len(call.raw) :
          call.raw[k] = "]" /\ StringStateBefore(call.raw, k) = "in"

\* The value recovered from the content of the call's response.
Recovered == parseModelJsonOutput(call.response.content)

\* The keys the schema of the call's operation names.
ExpectedKeys ==
    IF call.op = "generateQueries" THEN { KeyQueries } ELSE { KeyLearnings, KeyFollowUps }

\* v is an object that holds, under each of the keys, an array of strings.
Conforms(v, keys) ==
    /\ v.t = "object"
    /\ \A key \in keys :
          \E k \in DOMAIN v.items :
              /\ v.items[k].text = key
              /\ v.items[k].items[1].t = "array"
              /\ { e.t : e \in Range(v.items[k].items[1].items) } \subseteq { "string" }

\* What the operation of the call returns when its generation fails.
FallbackResult ==
    IF call.op = "generateQueries"
    THEN [threw |-> FALSE, queries |-> << Topic >>, usage |-> NoUsage,
          events |-> << ErrorEvent("Failed to generate queries") >>]
    ELSE [threw |-> FALSE, learnings |-> << >>, followUpQuestions |-> << >>,
          usage |-> NoUsage, events |-> << ErrorEvent("Failed to process content") >>]

WrongShapeAnswered ==
    /\ call.op \in { "generateQueries", "processContent" }
    /\ call.done
    /\ call.response.ok
    /\ call.response.content # << >>
    /\ Recovered.ok
    /\ ~Conforms(Recovered.value, ExpectedKeys)

\* C21: a response whose recovered JSON value does not have the shape of the
\* schema (queries: array of strings; learnings and followUpQuestions: arrays
\* of strings) makes generateObject throw, and the caller takes the path it
\* takes for an unparseable response: generateQueries returns [prompt],
\* processContent returns empty lists, each logs one error event, and neither
\* the value nor the reported usage is taken over.
C21_ShapeMismatchIsFailure == WrongShapeAnswered => call.result = FallbackResult

\* generateQueries was answered with { "queries": [1] } and fell back to the
\* prompt.
C21_Witness ==
    /\ WrongShapeAnswered
    /\ call.op = "generateQueries"
    /\ call.response.content = << "{" >> \o Member(KeyQueries, << "[", "1", "]" >>) \o << "}" >>
    /\ call.result.queries = << Topic >>

\* C22: after every update of the accumulator, tokenUsage.total equals
\* tokenUsage.prompt + tokenUsage.completion, and equals the sum of the
\* prompt tokens plus the sum of the completion tokens the provider reported
\* over the generation calls made so far.
C22_TotalIsPromptPlusCompletion ==
    /\ state.tokenUsage.total = state.tokenUsage.prompt + state.tokenUsage.completion
    /\ call.op = "generation" => state.tokenUsage.total = call.prompts + call.completions

\* The text provider fails while generateReport awaits it.
ReportProviderFails == \E answer \in TextAnswers : ~answer.ok /\ ReportSettle(answer)

\* C23: when the text-generation provider fails, generateReport fails to its
\* caller (it does not return a report), and the failed call leaves the
\* learnings, the visited set and tokenUsage as they were.
C23_ReportFailurePropagates ==
    [][ReportProviderFails => (report' = "failed" /\ state' = state)]_vars

\* generateReport has failed on an engine that holds learnings, visited
\* hrefs and accumulated usage.
C23_Witness ==
    /\ report = "failed"
    /\ Len(state.learnings) > 0
    /\ state.visitedUrls # {}
    /\ state.tokenUsage.total > 0

\* An error event has been logged.
ErrorLogged == \E e \in BagToSet(log) : e.type = "error"

\* C24: every error that occurs during run or generateReport is emitted as
\* an error log event with a message; in particular, once generateReport has
\* failed, the log holds an error event.
C24_EveryErrorIsLogged == report = "failed" => ErrorLogged

\* The pages processed so far: those whose scrape succeeded.
PagesProcessed ==
    BagCardinality([e \in { e \in BagToSet(log) :
                              e.type = "scrape" /\ e.status = "success" }
                      |-> CopiesIn(e, log)])

\* C30: each processed page contributes at most config.learningsPerChunk
\* learnings to state.learnings and at most 3 follow-up questions to its
\* node's follow-up list, whatever number of items the extraction returns.
C30_ExtractionIsCapped ==
    /\ Len(state.learnings) <= config.learningsPerChunk * PagesProcessed
    /\ \A f \in FetchTasks :
          Len(FetchTask(f).res.followUpQuestions) <= FollowUpLimit

\* The number of learnings the tasks before the i-th hold.
RECURSIVE LearningsBefore(_, _)
LearningsBefore(tasks, i) ==
    IF i <= 1 THEN 0
    ELSE LearningsBefore(tasks, i - 1) + Len(tasks[i - 1].res.learnings)

\* The url of the task was admitted by the node's search for the task's query.
FoundBy(n, task) ==
    \E s \in 1..Len(nodes[n].search) :
        /\ nodes[n].search[s].query = task.query
        /\ task.url \in Range(nodes[n].search[s].results)

\* C25: every learning carries the URL of the page it was extracted from and
\* the query whose results held that URL.  An extraction is recorded with the
\* url and query of the task that fetched the page, and the join appends,
\* task by task, exactly the learnings of each extraction under that url and
\* query, whatever the order in which the tasks settled.
C25_LearningsKeepTheirSource ==
    /\ [](\A f \in FetchTasks :
             /\ FoundBy(f.node, FetchTask(f))
             /\ ~FetchTask(f).res.null =>
                   /\ FetchTask(f).res.sourceUrl = FetchTask(f).url
                   /\ FetchTask(f).res.sourceQuery = FetchTask(f).query
                   /\ Logged(ScrapeEvent(FetchTask(f).url, "success")))
    /\ [][\A n \in NodeIds :
             (FetchJoinReady(n) /\ FetchJoin(n)) =>
                 /\ Len(Appended) = LearningsBefore(nodes[n].fetch, Len(nodes[n].fetch) + 1)
                 /\ \A i \in 1..Len(nodes[n].fetch) :
                       \A k \in 1..Len(nodes[n].fetch[i].res.learnings) :
                           Appended[LearningsBefore(nodes[n].fetch, i) + k] =
                               [text |-> nodes[n].fetch[i].res.learnings[k],
                                sourceUrl |-> nodes[n].fetch[i].url,
                                sourceQuery |-> nodes[n].fetch[i].query]]_vars

\* The state holds learnings of two pages found by two queries, the page
\* of the second query first.
C25_Witness ==
    \E i, j \in 1..Len(state.learnings) :
        /\ i < j
        /\ state.learnings[i].sourceUrl # state.learnings[j].sourceUrl
        /\ state.learnings[i].sourceQuery = QueryText(2)
        /\ state.learnings[j].sourceQuery = QueryText(1)

\* C26: a source is registered once and for all: when an href that
\* canonicalizes identically to an already admitted one comes up again, no
\* new source is created, and the source keeps the raw url and the query of
\* its first admission.  The sources the engine registers are the hrefs its
\* search tasks admit, each under the query of the task.
C26_FirstWriteWins ==
    \A a, b \in SearchTasks :
        \A h1 \in Range(SearchTask(a).results), h2 \in Range(SearchTask(b).results) :
            canonicalize(h1) = canonicalize(h2) =>
                h1 = h2 /\ a = b

\* C27: canonicalize(canonicalize(u)) = canonicalize(u) for every valid URL u.
C27_CanonicalizeIdempotent ==
    (call.op = "canonicalize" /\ call.done) => call.again = call.result

\* Href is injective on the URLs of the model, and every canonical form is
\* the text of one of them.
UrlSpaceClosed ==
    /\ \A u, v \in UrlSpace : Href(u) = Href(v) => u = v
    /\ \A u \in UrlSpace : Parseable(canonicalize(Href(u)))

\* The href may still be admitted: it is not visited and the Screener allows it.
Admissible(h) == h \notin state.visitedUrls /\ Allowed(h)

\* The number of admissible entries of found before position p.
AdmissibleBefore(found, p) ==
    Cardinality({ q \in 1..(p - 1) : Admissible(found[q]) })

\* C28: a search task queues at most maxSearchResultsPerQuery results, and
\* the truncation comes after screening and deduplication: the queued results
\* are the first admissible results of the search in their order, as many as
\* there are up to the maximum (a rejected or visited result uses up no
\* place), and exactly the queued ones are added to the visited set, so that
\* an admissible result that was cut off is still unvisited.
C28_TruncationAfterScreening ==
    [][\A ref \in active, answer \in SearchAnswers :
          SearchSettle(ref, answer) =>
              LET task == nodes'[ref.node].search[ref.idx]
              IN /\ Len(task.results) =
                        Min(AdmissibleBefore(task.found, Len(task.found) + 1),
                            config.maxSearchResultsPerQuery)
                 /\ \A k \in 1..Len(task.results) :
                       \E p \in 1..Len(task.found) :
                           /\ task.found[p] = task.results[k]
                           /\ Admissible(task.found[p])
                           /\ AdmissibleBefore(task.found, p) = k - 1
                 /\ state'.visitedUrls = state.visitedUrls \cup Range(task.results)]_vars

\* With a maximum of one, a search queued the second of its results because
\* the first was rejected, and that result had been cut off from the results
\* of an earlier search.
C28_Witness ==
    /\ config.maxSearchResultsPerQuery = 1
    /\ \E a, b \in SearchTasks :
          /\ SearchTask(a).found = << Href(UrlTracked), Href(UrlPlain) >>
          /\ SearchTask(a).results = << Href(UrlTracked) >>
          /\ SearchTask(b).found = << Href(UrlLogin), Href(UrlPlain) >>
          /\ SearchTask(b).results = << Href(UrlPlain) >>

\* 1 + breadth + ... + breadth^(depth - 1)
RECURSIVE TreeBound(_, _)
TreeBound(breadth, depth) ==
    IF depth <= 0 THEN 0 ELSE 1 + breadth * TreeBound(breadth, depth - 1)

\* The query generations completed so far: each logs one query_generated event.
QueryGenerations ==
    BagCardinality([e \in { e \in BagToSet(log) : e.type = "query_generated" }
                      |-> CopiesIn(e, log)])

\* C29: every node issues at most config.breadth queries and has at most
\* config.breadth sub-branches, every node runs at a depth between 1 and
\* config.depth, one less than its parent's, and so the nodes of a run and
\* its query generations number at most 1 + breadth + ... + breadth^(depth-1).
C29_TreeIsBounded ==
    /\ \A n \in NodeIds :
          /\ Len(nodes[n].queries) <= config.breadth
          /\ Len(nodes[n].search) <= config.breadth
          /\ Len(nodes[n].children) <= config.breadth
          /\ nodes[n].depth \in 1..config.depth
          /\ nodes[n].parent # 0 => nodes[n].depth = nodes[nodes[n].parent].depth - 1
    /\ \A e \in BagToSet(log) : e.type = "query_generated" => e.count <= config.breadth
    /\ Len(nodes) <= TreeBound(config.breadth, config.depth)
    /\ QueryGenerations <= TreeBound(config.breadth, config.depth)

\* A tree of depth 2 and breadth 2 is full: the root and two sub-branches
\* have each generated two queries.
C29_Witness ==
    /\ config.depth = 2
    /\ config.breadth = 2
    /\ Len(nodes) = 3
    /\ QueryGenerations = 3
    /\ \A n \in NodeIds : Len(nodes[n].search) = 2

\* C31: within one node the search log events are emitted in the order in
\* which the queries were submitted, however the searches complete.  A
\* search task logs its event in the step in which it settles, so the event
\* of a later query is logged only when those of the earlier ones have been.
C31_SearchEventsInSubmissionOrder ==
    \A n \in NodeIds :
        \A i, j \in 1..Len(nodes[n].search) :
            (i < j /\ nodes[n].search[j].status = "done") =>
                nodes[n].search[i].status = "done"

\* The node's query_generated event.
QueryGenerated(n) ==
    [type |-> "query_generated", depth |-> nodes[n].depth,
     count |-> Len(nodes[n].queries), queries |-> nodes[n].queries]

\* The learnings of the node's extractions are in the state.
LearningsAppended(n) ==
    \A i \in 1..Len(nodes[n].fetch) :
        \A k \in 1..Len(nodes[n].fetch[i].res.learnings) :
            [text |-> nodes[n].fetch[i].res.learnings[k],
             sourceUrl |-> nodes[n].fetch[i].url,
             sourceQuery |-> nodes[n].fetch[i].query] \in Range(state.learnings)

AllSearchesDone(n) ==
    \A i \in 1..Len(nodes[n].search) : nodes[n].search[i].status = "done"
AllFetchesDone(n) ==
    \A i \in 1..Len(nodes[n].fetch) : nodes[n].fetch[i].stage = "done"

\* C32: a node passes through its phases in order, with a barrier between
\* them: its query_generated event is logged before any of its searches
\* exists, none of its fetches exists before all its searches have completed,
\* learnings are appended only in the step that follows the completion of
\* all fetch/extract tasks of a node, and a sub-branch exists only when the
\* parent's tasks are all done and its learnings are in the state.
C32_PhasesInOrder ==
    /\ [](\A n \in NodeIds :
             /\ Len(nodes[n].search) > 0 => Logged(QueryGenerated(n))
             /\ Len(nodes[n].fetch) > 0 => AllSearchesDone(n)
             /\ Len(nodes[n].children) > 0 =>
                   AllSearchesDone(n) /\ AllFetchesDone(n) /\ LearningsAppended(n)
             /\ nodes[n].parent # 0 =>
                   /\ nodes[nodes[n].parent].phase = "recursing"
                   /\ AllFetchesDone(nodes[n].parent)
                   /\ LearningsAppended(nodes[n].parent))
    /\ [][state'.learnings # state.learnings =>
             \E n \in NodeIds :
                 /\ nodes[n].phase = "fetching"
                 /\ AllSearchesDone(n)
                 /\ AllFetchesDone(n)
                 /\ FetchJoin(n)]_vars

\* A sub-branch is searching; its parent ran two searches and two
\* extractions, whose learnings are in the state.
C32_Witness ==
    \E n \in NodeIds :
        /\ nodes[n].parent # 0
        /\ nodes[n].phase = "searching"
        /\ Len(nodes[nodes[n].parent].search) = 2
        /\ Len(nodes[nodes[n].parent].fetch) = 2
        /\ Len(state.learnings) >= 2

\* C33: an href admitted at search time stays in the visited set when its
\* fetch fails, its content is too short or its extraction fails, and it is
\* not fetched again later in the run: once a fetch of the href has settled
\* (its scrape event is logged), the href is visited and no fetch of it is
\* still to come.
C33_VisitedNeverFetchedAgain ==
    \A h \in Hrefs :
        ScrapeCount(h) > 0 =>
            /\ h \in state.visitedUrls
            /\ \A f \in FetchTasks :
                  FetchTask(f).url = h => FetchTask(f).stage # "fetch"

\* The hrefs the backend listed that the Screener allows (none is visited
\* when the task starts, and the backend lists no href twice).
ListedAllowed == { i \in 1..Len(call.hits) : Allowed(call.hits[i]) }

\* C34: the number of results a query queues is governed by
\* maxSearchResultsPerQuery alone: when the backend lists at least that many
\* allowed, unvisited URLs, exactly that many are queued for fetching.
C34_QuotaAloneGoverns ==
    (call.op = "searchTask" /\ call.done
     /\ Cardinality(ListedAllowed) >= config.maxSearchResultsPerQuery) =>
        Len(call.results) = config.maxSearchResultsPerQuery

=============================================================================
